---- MODULE Spec2Model ----
(***************************************************************************)
(* Model of run.py: one run of the DOCX translator after the button        *)
(* "Start Translation" is pressed.  The main flow extracts the text of the *)
(* paragraphs, fans batches out to a thread pool, scatters the results     *)
(* back by offset, rewrites the nodes, saves and offers the download; the  *)
(* finally block removes the temporary files.                              *)
(*                                                                         *)
(* A text is a sequence of characters.  The characters used are a letter   *)
(* class ("a", "b", and "T", the mark a translation carries), the space,   *)
(* a control character ("\t") and a punctuation character (".").           *)
(***************************************************************************)
EXTENDS Integers, Sequences, FiniteSets, TLC

\* ------------------------------------------------------------------ bounds
\* Largest number of paragraphs (body and table cell) of an uploaded document.
MaxNodes == 3

\* Batch size.  run.py:137 sets BS = 100; the model scales it down so that a
\* document of MaxNodes paragraphs is split into more than one batch.
BS == 2

\* ------------------------------------------------------------- characters
ControlChars == {"\t"}
Whitespace == {" ", "\t"}
Punctuation == {"."}

\* Python's None, as stored in the results array and returned by a translator.
None == <<"<None>">>

\* ----------------------------------------------------------- clean_text
\* re.sub(r'[\x00-\x1F...]', ' ', text)
ReSubControl(text) ==
    [k \in 1..Len(text) |-> IF text[k] \in ControlChars THEN " " ELSE text[k]]

RECURSIVE LStrip(_)
LStrip(text) ==
    IF text # <<>> /\ Head(text) \in Whitespace THEN LStrip(Tail(text)) ELSE text

RECURSIVE RStrip(_)
RStrip(text) ==
    IF text # <<>> /\ text[Len(text)] \in Whitespace
    THEN RStrip(SubSeq(text, 1, Len(text) - 1))
    ELSE text

\* str.strip()
Strip(text) == RStrip(LStrip(text))

\* re.sub(r'\s+', ' ', text)
RECURSIVE ReSubSpaces(_)
ReSubSpaces(text) ==
    IF text = <<>> THEN <<>>
    ELSE IF Head(text) \in Whitespace
         THEN <<" ">> \o ReSubSpaces(LStrip(text))
         ELSE <<Head(text)>> \o ReSubSpaces(Tail(text))

\* re.sub(r'([.,!?;:()\-])\1+', r'\1', text)
RECURSIVE ReSubPunct(_)
ReSubPunct(text) ==
    IF Len(text) < 2 THEN text
    ELSE IF text[1] \in Punctuation /\ text[2] = text[1]
         THEN ReSubPunct(Tail(text))
         ELSE <<text[1]>> \o ReSubPunct(Tail(text))

clean_text(text) == Strip(ReSubPunct(ReSubSpaces(ReSubControl(text))))

\* len(cleaned_txt) > 0 and not re.match(r'^[.,!?;:()\- ]+$', cleaned_txt)
is_valid(cleaned_txt) ==
    /\ Len(cleaned_txt) > 0
    /\ ~ \A k \in 1..Len(cleaned_txt) : cleaned_txt[k] \in Punctuation \cup {" "}

\* Python truthiness of a string-or-None value.
Truthy(r) == r # None /\ r # <<>>

\* ------------------------------------------------------------ the inputs
\* The paragraph texts an uploaded document is built from: plain text, text
\* that cleaning changes, punctuation only, and empty.
RawTexts ==
    { <<"a">>,
      <<"\t", " ", "b", ".", ".">>,
      <<".", ".">>,
      <<>> }

\* The translation of a source string: the string, marked.
Translation(txt) == <<"T">> \o txt

\* What the translator may return for one string.
ResultKinds == {"text", "none", "empty", "blank"}

ResultOf(kind, txt) ==
    CASE kind = "text" -> Translation(txt)
      [] kind = "none" -> None
      [] kind = "empty" -> <<>>
      [] kind = "blank" -> <<" ">>

SeqsUpTo(S, n) == UNION {[1..m -> S] : m \in 0..n}

\* What translate_batch may return for n strings: a result per string, fewer
\* results, or one result too many.
TranslatorReturns(n) ==
    SeqsUpTo(ResultKinds, n) \cup {[k \in 1..(n + 1) |-> "text"]}

\* The uploads: the text of each paragraph, in the order the extraction walks
\* them (doc.paragraphs, then the paragraphs of the table cells).
Uploads == SeqsUpTo(RawTexts, MaxNodes)

\* The thread-count slider: st.slider("**Thread Count**", 1, 3, 1).
ThreadCounts == 1..3

\* ------------------------------------------------------------- the state
VARIABLES
    uf,              \* the uploaded document
    wk,              \* thread count
    stage,           \* where the main flow is
    fpExists,        \* the temporary input file exists on disk
    opDefined,       \* 'op' in locals()
    opFile,          \* the translated output file on disk
    doc,             \* the in-memory Document: the text of each paragraph
    ti,              \* [(paragraph, cleaned text)]
    at,              \* texts to translate
    filtered_texts,  \* texts rejected by extract_and_clean
    total,           \* len(at)
    log,             \* the log list, shared with the batch tasks
    ta,              \* the results array
    futs,            \* the submitted futures, by start offset
    i,               \* the submission loop's offset
    collected,       \* the futures the as_completed loop has processed
    pendingExc,      \* fut.result() raised inside the with block
    done,            \* progress counter
    idx,             \* the document update loop's index
    ui,              \* what the page shows
    download,        \* the content handed to the download button
    faults           \* the input/output operations that raised

vars ==
    <<uf, wk, stage, fpExists, opDefined, opFile, doc, ti, at, filtered_texts, total, log, ta, futs, i, collected, pendingExc, done,
      idx, ui, download, faults>>

NoFile == [exists |-> FALSE, content |-> <<>>]

NoDownload == [offered |-> FALSE, content |-> <<>>]

\* ------------------------------------------------------------ extraction
\* extract_and_clean(p), on the paragraph's text.
extract_and_clean(raw_txt) ==
    LET cleaned_txt == clean_text(raw_txt)
    IN  [is_valid |-> is_valid(cleaned_txt),
         cleaned_txt |-> cleaned_txt,
         filtered |-> ~ is_valid(cleaned_txt) /\ Strip(raw_txt) # <<>>]

\* The two extraction loops over paragraphs n..Len(paras): the (paragraph,
\* cleaned text) pairs of the valid ones, in traversal order.
RECURSIVE ExtractFrom(_, _)
ExtractFrom(paras, n) ==
    IF n > Len(paras) THEN <<>>
    ELSE LET e == extract_and_clean(paras[n])
         IN  (IF e.is_valid THEN <<[node |-> n, txt |-> e.cleaned_txt]>> ELSE <<>>)
             \o ExtractFrom(paras, n + 1)

RECURSIVE FilteredFrom(_, _)
FilteredFrom(paras, n) ==
    IF n > Len(paras) THEN <<>>
    ELSE (IF extract_and_clean(paras[n]).filtered THEN <<paras[n]>> ELSE <<>>)
         \o FilteredFrom(paras, n + 1)

\* ----------------------------------------------------------------- tb
\* min(len(res), len(txts)): what zip(res, txts) pairs up.
Min(a, b) == IF a < b THEN a ELSE b

\* Mutant of TbReturn: the test r.strip() is forgotten.
TbReturn_NoStrip(res, txts) ==
    [exc |-> FALSE,
     val |-> [k \in 1..Min(Len(res), Len(txts)) |->
                 IF Truthy(res[k]) THEN res[k] ELSE txts[k]]]

\* Mutant of TbReturn: the results are returned as the translator gave them.
TbReturn_NoFallback(res, txts) ==
    [exc |-> FALSE, val |-> SubSeq(res, 1, Min(Len(res), Len(txts)))]

\* tb, the translator having returned res: the list comprehension of line 143.
TbReturn(res, txts) ==
    [exc |-> FALSE,
     val |-> [k \in 1..Min(Len(res), Len(txts)) |->
                 IF Truthy(res[k]) /\ Strip(res[k]) # <<>> THEN res[k] ELSE txts[k]]]

\* Mutant of TbExcept: the except clause returns a placeholder per string.
TbExcept_Placeholder(txts) ==
    [exc |-> FALSE, val |-> [k \in 1..Len(txts) |-> <<"T", "?">>]]

\* Mutant of TbExcept: the except clause logs and raises again.
TbExcept_Reraise(txts) == [exc |-> TRUE, val |-> <<>>]

\* tb, the translator having raised: the except clause returns the originals.
TbExcept(txts) == [exc |-> FALSE, val |-> txts]

\* --------------------------------------------------- dispatch and scatter
\* Mutant of NextOffset: the range steps by one.
NextOffset_One(k) == k + 1

\* range(0, total, BS): the offset after i.
NextOffset(k) == k + BS

\* at[i:i+BS]
Slice(list, k) == SubSeq(list, k + 1, Min(k + BS, Len(list)))

\* Mutant of ScatterIndex: the start offset is forgotten.
ScatterIndex_NoOffset(start_idx, k) == k

\* The position (from 0) written for the idx-th result of the batch at start_idx.
ScatterIndex(start_idx, k) == start_idx + k

\* The inner loop of lines 161-163.
Scatter(arr, start_idx, res) ==
    [p \in 1..Len(arr) |->
        LET hits == {k \in 0..(Len(res) - 1) :
                        /\ ScatterIndex(start_idx, k) < total
                        /\ ScatterIndex(start_idx, k) = p - 1}
        IN  IF hits = {} THEN arr[p]
            ELSE res[(CHOOSE k \in hits : \A m \in hits : m <= k) + 1]]

\* sum(1 for x in ta if x is not None)
CountDone(arr) == Cardinality({p \in 1..Len(arr) : arr[p] # None})

\* Mutant of CollectionFinished: the loop stops at the first finished future.
CollectionFinished_First == \E s \in DOMAIN futs : s \in collected

\* The as_completed loop has yielded every future.
CollectionFinished == \A s \in DOMAIN futs : s \in collected

\* ThreadPoolExecutor.__exit__: shutdown(wait=True).
AllTasksDone == \A s \in DOMAIN futs : futs[s].state = "done"

Active == {s \in DOMAIN futs : futs[s].state \in {"running", "handler"}}
Queued == {s \in DOMAIN futs : futs[s].state = "queued"}

\* ------------------------------------------------------------ the rewrite
\* ta[idx] or original_txt
FinalText(translated, original_txt) ==
    IF Truthy(translated) THEN translated ELSE original_txt

\* Mutant of SetNodeText: the text is added as a new paragraph.
SetNodeText_Append(d, n, txt) == Append(d, txt)

\* p_obj.text = translated_txt
SetNodeText(d, n, txt) == [d EXCEPT ![n] = txt]

\* Mutant of IsEmptyDocument: the test is never true.
IsEmptyDocument_Never(n) == FALSE

\* if total == 0
IsEmptyDocument(n) == n = 0

\* ----------------------------------------------------------------- Init
Init ==
    /\ uf \in Uploads
    /\ wk \in ThreadCounts
    /\ stage = "start"
    /\ fpExists = FALSE
    /\ opDefined = FALSE
    /\ opFile = NoFile
    /\ doc = <<>>
    /\ ti = <<>>
    /\ at = <<>>
    /\ filtered_texts = <<>>
    /\ total = 0
    /\ log = <<>>
    /\ ta = <<>>
    /\ futs = <<>>
    /\ i = 0
    /\ collected = {}
    /\ pendingExc = FALSE
    /\ done = 0
    /\ idx = 0
    /\ ui = {}
    /\ download = NoDownload
    /\ faults = {}

\* ------------------------------------------------- the temporary input file
\* tempfile.NamedTemporaryFile(delete=False, suffix=".docx"): the file exists.
CreateTemp ==
    /\ stage = "start"
    /\ fpExists' = TRUE
    /\ stage' = "write"
    /\ UNCHANGED <<uf, wk, opDefined, opFile, doc, ti, at, filtered_texts, total, log, ta, futs, i, collected,
                   pendingExc, done, idx, ui, download, faults>>

\* tmp.write(uf.getvalue()); fp = tmp.name; the try block is entered.
WriteTemp ==
    /\ stage = "write"
    /\ stage' = "parse"
    /\ UNCHANGED <<uf, wk, fpExists, opDefined, opFile, doc, ti, at, filtered_texts, total, log, ta, futs, i, collected,
                   pendingExc, done, idx, ui, download, faults>>

\* tmp.write raises (the disk is full): the with block closes the file, which
\* delete=False keeps, and the exception leaves the script before the try.
WriteTempFails ==
    /\ stage = "write"
    /\ stage' = "crashed"
    /\ faults' = faults \cup {"write"}
    /\ UNCHANGED <<uf, wk, fpExists, opDefined, opFile, doc, ti, at, filtered_texts, total, log, ta, futs, i, collected,
                   pendingExc, done, idx, ui, download>>

\* ---------------------------------------------------------------- parsing
\* doc = Document(fp)
Parse ==
    /\ stage = "parse"
    /\ doc' = uf
    /\ stage' = "extract"
    /\ UNCHANGED <<uf, wk, fpExists, opDefined, opFile, ti, at, filtered_texts, total, log, ta, futs, i, collected,
                   pendingExc, done, idx, ui, download, faults>>

\* Document(fp) raises (the upload is no valid package).
ParseFails ==
    /\ stage = "parse"
    /\ stage' = "except"
    /\ faults' = faults \cup {"parse"}
    /\ UNCHANGED <<uf, wk, fpExists, opDefined, opFile, doc, ti, at, filtered_texts, total, log, ta, futs, i, collected,
                   pendingExc, done, idx, ui, download>>

\* The extraction loops of lines 102-118 and total = len(at).
Extract ==
    /\ stage = "extract"
    /\ ti' = ExtractFrom(doc, 1)
    /\ at' = [k \in 1..Len(ti') |-> ti'[k].txt]
    /\ filtered_texts' = FilteredFrom(doc, 1)
    /\ total' = Len(at')
    /\ stage' = "check"
    /\ UNCHANGED <<uf, wk, fpExists, opDefined, opFile, doc, log, ta, futs,
                   i, collected, pendingExc, done, idx, ui, download, faults>>

\* Lines 121-136: the empty document halts through st.stop(), which no
\* except Exception clause catches; otherwise the first log lines are written
\* and the results array is allocated.
CheckTotal ==
    /\ stage = "check"
    /\ IF IsEmptyDocument(total)
       THEN /\ ui' = ui \cup {"no_valid_text"}
                        \cup (IF filtered_texts # <<>> THEN {"filtered"} ELSE {})
            /\ stage' = "finally"
            /\ UNCHANGED <<log, ta, i>>
       ELSE /\ log' = log \o <<"extracted", "direction">>
                          \o (IF filtered_texts # <<>> THEN <<"filtered">> ELSE <<>>)
            /\ ta' = [k \in 1..total |-> None]
            /\ i' = 0
            /\ stage' = "submit"
            /\ UNCHANGED ui
    /\ UNCHANGED <<uf, wk, fpExists, opDefined, opFile, doc, ti, at, filtered_texts, total, futs, collected, pendingExc, done,
                   idx, download, faults>>

\* ------------------------------------------------------------- the pool
\* fut = exe.submit(tb, at[i:i+BS]); futs[fut] = i
Submit ==
    /\ stage = "submit"
    /\ i < total
    /\ futs' = futs @@ (i :> [state |-> "queued", batch |-> Slice(at, i),
                              exc |-> FALSE, val |-> <<>>,
                              raised |-> FALSE, good |-> <<>>])
    /\ i' = NextOffset(i)
    /\ UNCHANGED <<uf, wk, stage, fpExists, opDefined, opFile, doc, ti, at,
                   filtered_texts, total, log, ta, collected,
                   pendingExc, done, idx, ui, download, faults>>

\* The for loop over range(0, total, BS) ends.
SubmitDone ==
    /\ stage = "submit"
    /\ i >= total
    /\ stage' = "collect"
    /\ UNCHANGED <<uf, wk, fpExists, opDefined, opFile, doc, ti, at, filtered_texts, total, log, ta, futs, i, collected,
                   pendingExc, done, idx, ui, download, faults>>

\* A worker thread takes the oldest queued work item; at most wk threads run.
TaskStart(s) ==
    /\ s \in Queued
    /\ \A q \in Queued : s <= q
    /\ Cardinality(Active) < wk
    /\ futs' = [futs EXCEPT ![s].state = "running"]
    /\ UNCHANGED <<uf, wk, stage, fpExists, opDefined, opFile, doc, ti, at,
                   filtered_texts, total, log, ta, i, collected,
                   pendingExc, done, idx, ui, download, faults>>

\* translate_batch returns: one kind of result per entry it returns, in the
\* order of the strings it was given; tb builds its list and the future is done.
TaskReturn(s) ==
    /\ s \in DOMAIN futs
    /\ futs[s].state = "running"
    /\ \E kinds \in TranslatorReturns(Len(futs[s].batch)) :
          LET txts == futs[s].batch
              res == [k \in 1..Len(kinds) |->
                         ResultOf(kinds[k], IF k <= Len(txts) THEN txts[k] ELSE <<>>)]
              out == TbReturn(res, txts)
          IN  futs' = [futs EXCEPT ![s] =
                          [state |-> "done", batch |-> txts,
                           exc |-> out.exc, val |-> out.val, raised |-> FALSE,
                           good |-> [k \in 1..Min(Len(kinds), Len(txts)) |->
                                        kinds[k] = "text"]]]
    /\ UNCHANGED <<uf, wk, stage, fpExists, opDefined, opFile, doc, ti, at,
                   filtered_texts, total, log, ta, i, collected,
                   pendingExc, done, idx, ui, download, faults>>

\* translate_batch raises: the task enters its except clause.
TaskRaise(s) ==
    /\ s \in DOMAIN futs
    /\ futs[s].state = "running"
    /\ futs' = [futs EXCEPT ![s].state = "handler", ![s].raised = TRUE]
    /\ UNCHANGED <<uf, wk, stage, fpExists, opDefined, opFile, doc, ti, at,
                   filtered_texts, total, log, ta, i, collected,
                   pendingExc, done, idx, ui, download, faults>>

\* Lines 146-147: log.append(...) on the shared list; return txts.
TaskLogError(s) ==
    /\ s \in DOMAIN futs
    /\ futs[s].state = "handler"
    /\ log' = Append(log, "batch_error")
    /\ LET out == TbExcept(futs[s].batch)
       IN  futs' = [futs EXCEPT ![s].state = "done",
                                ![s].exc = out.exc, ![s].val = out.val]
    /\ UNCHANGED <<uf, wk, stage, fpExists, opDefined, opFile, doc, ti, at,
                   filtered_texts, total, ta, i, collected,
                   pendingExc, done, idx, ui, download, faults>>

\* One round of the as_completed loop: a finished future, not yet yielded.
Collect(s) ==
    /\ stage = "collect"
    /\ ~ pendingExc
    /\ s \in DOMAIN futs
    /\ futs[s].state = "done"
    /\ s \notin collected
    /\ collected' = collected \cup {s}
    /\ IF futs[s].exc
       THEN /\ pendingExc' = TRUE
            /\ UNCHANGED <<ta, done, log>>
       ELSE /\ ta' = Scatter(ta, s, futs[s].val)
            /\ done' = CountDone(ta')
            /\ log' = IF done' % 10 = 0 THEN Append(log, "progress") ELSE log
            /\ UNCHANGED pendingExc
    /\ UNCHANGED <<uf, wk, stage, fpExists, opDefined, opFile, doc, ti, at,
                   filtered_texts, total, futs, i, idx, ui, download,
                   faults>>

\* The with block is left: the pool waits for every task; then either the
\* pending exception reaches the top-level except, or lines 171-173 run.
ExitPool ==
    /\ stage = "collect"
    /\ pendingExc \/ CollectionFinished
    /\ AllTasksDone
    /\ IF pendingExc
       THEN /\ stage' = "except"
            /\ UNCHANGED <<log, idx>>
       ELSE /\ log' = log \o <<"completed", "updating">>
            /\ idx' = 0
            /\ stage' = "rewrite"
    /\ UNCHANGED <<uf, wk, fpExists, opDefined, opFile, doc, ti, at, filtered_texts, total, ta, futs, i, collected, pendingExc,
                   done, ui, download, faults>>

\* ------------------------------------------------- rewrite, save, download
\* One round of the document update loop, lines 174-176.
RewriteNode ==
    /\ stage = "rewrite"
    /\ idx < Len(ti)
    /\ doc' = SetNodeText(doc, ti[idx + 1].node,
                          FinalText(ta[idx + 1], ti[idx + 1].txt))
    /\ idx' = idx + 1
    /\ UNCHANGED <<uf, wk, stage, fpExists, opDefined, opFile, ti, at,
                   filtered_texts, total, log, ta, futs, i, collected,
                   pendingExc, done, ui, download, faults>>

\* The document update loop has ended:
\* op = fp.replace(".docx", "_translated.docx"); doc.save(op)
Save ==
    /\ stage = "rewrite"
    /\ idx >= Len(ti)
    /\ opDefined' = TRUE
    /\ opFile' = [exists |-> TRUE, content |-> doc]
    /\ stage' = "present"
    /\ UNCHANGED <<uf, wk, fpExists, doc, ti, at, filtered_texts,
                   total, log, ta, futs, i, collected, pendingExc, done, idx,
                   ui, download, faults>>

\* doc.save(op) raises; the file may have been created already.
SaveFails(partial) ==
    /\ stage = "rewrite"
    /\ idx >= Len(ti)
    /\ opDefined' = TRUE
    /\ opFile' = [exists |-> partial, content |-> <<>>]
    /\ faults' = faults \cup {"save"}
    /\ stage' = "except"
    /\ UNCHANGED <<uf, wk, fpExists, doc, ti, at, filtered_texts,
                   total, log, ta, futs, i, collected, pendingExc, done, idx,
                   ui, download>>

\* Lines 184-201: the success banner and the download button on open(op).
Present ==
    /\ stage = "present"
    /\ ui' = ui \cup {"success", "download"}
                \cup (IF filtered_texts # <<>> THEN {"filtered"} ELSE {})
    /\ download' = [offered |-> TRUE, content |-> opFile.content]
    /\ stage' = "finally"
    /\ UNCHANGED <<uf, wk, fpExists, opDefined, opFile, doc, ti, at, filtered_texts, total, log, ta, futs, i, collected,
                   pendingExc, done, idx, faults>>

\* except Exception as e: st.error("### Translation Failed")
Except ==
    /\ stage = "except"
    /\ ui' = ui \cup {"failed"}
    /\ stage' = "finally"
    /\ UNCHANGED <<uf, wk, fpExists, opDefined, opFile, doc, ti, at, filtered_texts, total, log, ta, futs, i, collected,
                   pendingExc, done, idx, download, faults>>

\* ------------------------------------------------------------- finally
\* os.unlink(fp); then the test 'op' in locals() and os.path.exists(op).
UnlinkFp ==
    /\ stage = "finally"
    /\ fpExists' = FALSE
    /\ stage' = IF opDefined /\ opFile.exists THEN "finally_op" ELSE "done"
    /\ UNCHANGED <<uf, wk, opDefined, opFile, doc, ti, at, filtered_texts, total, log, ta, futs, i, collected,
                   pendingExc, done, idx, ui, download, faults>>

\* os.unlink(fp) raises: the warning is shown and the output file is not reached.
UnlinkFpFails ==
    /\ stage = "finally"
    /\ ui' = ui \cup {"cleanup_warning"}
    /\ faults' = faults \cup {"unlink"}
    /\ stage' = "done"
    /\ UNCHANGED <<uf, wk, fpExists, opDefined, opFile, doc, ti, at, filtered_texts, total, log, ta, futs, i, collected,
                   pendingExc, done, idx, download>>

\* os.unlink(op)
UnlinkOp ==
    /\ stage = "finally_op"
    /\ opFile' = NoFile
    /\ stage' = "done"
    /\ UNCHANGED <<uf, wk, fpExists, opDefined, doc, ti, at, filtered_texts, total, log, ta, futs, i, collected,
                   pendingExc, done, idx, ui, download, faults>>

\* os.unlink(op) raises.
UnlinkOpFails ==
    /\ stage = "finally_op"
    /\ ui' = ui \cup {"cleanup_warning"}
    /\ faults' = faults \cup {"unlink"}
    /\ stage' = "done"
    /\ UNCHANGED <<uf, wk, fpExists, opDefined, opFile, doc, ti, at, filtered_texts, total, log, ta, futs, i, collected,
                   pendingExc, done, idx, download>>

\* ------------------------------------------------------- the specification
\* The offsets a task can have.
Offsets == 0..MaxNodes

Next ==
    \/ CreateTemp
    \/ WriteTemp
    \/ WriteTempFails
    \/ Parse
    \/ ParseFails
    \/ Extract
    \/ CheckTotal
    \/ Submit
    \/ SubmitDone
    \/ \E s \in Offsets : TaskStart(s)
    \/ \E s \in Offsets : TaskReturn(s)
    \/ \E s \in Offsets : TaskRaise(s)
    \/ \E s \in Offsets : TaskLogError(s)
    \/ \E s \in Offsets : Collect(s)
    \/ ExitPool
    \/ RewriteNode
    \/ Save
    \/ \E partial \in BOOLEAN : SaveFails(partial)
    \/ Present
    \/ Except
    \/ UnlinkFp
    \/ UnlinkFpFails
    \/ UnlinkOp
    \/ UnlinkOpFails

Spec == Init /\ [][Next]_vars

\* ------------------------------------------------------------ the claims
\* The offset of the batch that holds unit j (units counted from 1).
BatchOf(j) == ((j - 1) \div BS) * BS

\* The offsets range(0, total, BS) yields.
ExpectedOffsets == {s \in 0..(total - 1) : s % BS = 0}

\* The translator returned a usable result for unit j.
GoodResult(j) ==
    LET s == BatchOf(j)
    IN  /\ s \in DOMAIN futs
        /\ ~ futs[s].raised
        /\ j - s <= Len(futs[s].good)
        /\ futs[s].good[j - s]

\* The translator returned, and returned nothing for unit j.
MissingResult(j) ==
    LET s == BatchOf(j)
    IN  /\ s \in DOMAIN futs
        /\ futs[s].state = "done"
        /\ ~ futs[s].raised
        /\ j - s > Len(futs[s].good)

\* The document was parsed.
Parsed == stage \notin {"start", "write", "crashed", "parse"} /\ "parse" \notin faults

\* The run logged "Translation completed".
Completed == \E k \in 1..Len(log) : log[k] = "completed"

\* The paragraphs collected as translatable units.
CollectedNodes == {ti[j].node : j \in 1..Len(ti)}

\* C1: whatever the order of completion and the thread count, a processed
\* batch's k-th result is stored at position offset + k and nowhere else, so
\* position i of ta holds nothing or the result produced for at[i], and a
\* rewritten node holds the translation of its own string or that string.
C1_OrderInvariant ==
    /\ \A s \in collected :
          ~ futs[s].exc =>
             \A k \in 1..Len(futs[s].val) : ta[s + k] = futs[s].val[k]
    /\ \A p \in 1..Len(ta) :
          /\ ta[p] \in {None, at[p], Translation(at[p])}
          /\ ta[p] # None => BatchOf(p) \in collected
    /\ \A j \in 1..idx : doc[ti[j].node] \in {at[j], Translation(at[j])}

\* C1 witness: the second batch completed and was processed while the first
\* was still running, and the two batches start with different strings.
C1_Witness ==
    /\ collected = {BS}
    /\ futs[0].state = "running"
    /\ at[1] # at[BS + 1]
    /\ ta[BS + 1] = Translation(at[BS + 1])

\* C2: when a batch call raised, every node of that batch is rewritten to
\* its extracted string at[i], in the document and in the download; a node
\* of a batch that did not raise still gets the translation it was given.
C2_FallbackOnRaise ==
    /\ \A j \in 1..idx :
          /\ futs[BatchOf(j)].raised =>
                /\ doc[ti[j].node] = at[j]
                /\ download.offered => download.content[ti[j].node] = at[j]
          /\ GoodResult(j) =>
                /\ doc[ti[j].node] = Translation(at[j])
                /\ download.offered =>
                      download.content[ti[j].node] = Translation(at[j])
    /\ download.offered => idx = total

\* C2 witness: the download is offered after one batch raised and the other
\* was translated.
C2_Witness ==
    /\ download.offered
    /\ \E s \in DOMAIN futs : futs[s].raised
    /\ \E j \in 1..total : GoodResult(j)

\* C3: a document with no valid text is reported and the run halts: no task
\* is submitted, no node changes, nothing is saved, no download is offered.
C3_EmptyDocumentHalts ==
    /\ (Parsed /\ stage \notin {"extract", "check"} /\ total = 0) =>
          /\ "no_valid_text" \in ui
          /\ stage \in {"finally", "done"}
          /\ DOMAIN futs = {}
          /\ doc = uf
          /\ ~ opDefined
          /\ ~ opFile.exists
          /\ ~ download.offered
          /\ ui \cap {"success", "download", "failed"} = {}
    /\ "no_valid_text" \in ui => total = 0

\* C3 witness: a document of paragraphs, none valid, one of them filtered,
\* has ended its run.
C3_Witness ==
    /\ stage = "done"
    /\ Len(uf) > 1
    /\ "no_valid_text" \in ui
    /\ "filtered" \in ui

\* C4: the document keeps its number of paragraphs, in memory, in the saved
\* file and in the download, and a paragraph that was not collected keeps
\* its text.
C4_StructurePreserved ==
    /\ Parsed =>
          /\ Len(doc) = Len(uf)
          /\ \A n \in 1..Len(uf) : n \notin CollectedNodes => doc[n] = uf[n]
    /\ (opFile.exists /\ "save" \notin faults) =>
          /\ Len(opFile.content) = Len(uf)
          /\ \A n \in 1..Len(uf) :
                n \notin CollectedNodes => opFile.content[n] = uf[n]
    /\ download.offered =>
          /\ Len(download.content) = Len(uf)
          /\ \A n \in 1..Len(uf) :
                n \notin CollectedNodes => download.content[n] = uf[n]

\* C4 witness: a download of a document with a paragraph that was not
\* collected and a paragraph whose text was replaced.
C4_Witness ==
    /\ download.offered
    /\ \E n \in 1..Len(uf) : n \notin CollectedNodes /\ uf[n] # <<>>
    /\ \E n \in CollectedNodes : download.content[n] # uf[n]

\* C5: however the run ends once the temporary input file exists, neither
\* temporary file is left on disk.
C5_CleanupGuaranteed ==
    stage \in {"done", "crashed"} => ~ fpExists /\ ~ opFile.exists

\* C6: a raising translation call never leads to the top-level except
\* branch; a run with valid text whose save does not fail processes every
\* batch, rewrites every unit and offers the download.
C6_TranslationFailureNotFatal ==
    /\ (stage = "except" \/ "failed" \in ui) => faults \cap {"parse", "save"} # {}
    /\ (stage \in {"finally", "finally_op", "done"} /\ total > 0
        /\ "save" \notin faults) =>
          /\ DOMAIN futs = ExpectedOffsets
          /\ collected = ExpectedOffsets
          /\ idx = total
          /\ download.offered
          /\ {"success", "download"} \subseteq ui

\* C6 witness: the run ended with the download although both batch calls raised.
C6_Witness ==
    /\ stage = "done"
    /\ Cardinality(DOMAIN futs) = 2
    /\ \A s \in DOMAIN futs : futs[s].raised
    /\ "download" \in ui

TaskStep == futs' # futs /\ DOMAIN futs' = DOMAIN futs

C8_RewriteAfterAllCollected ==
    (\/ stage \in {"rewrite", "present"}
     \/ idx > 0
     \/ opDefined
     \/ opFile.exists
     \/ download.offered
     \/ (Parsed /\ doc # uf)) =>
        /\ DOMAIN futs = ExpectedOffsets
        /\ \A s \in DOMAIN futs : futs[s].state = "done" /\ s \in collected

\* C8 witness: with two batches and two threads, the rewrite is under way.
C8_Witness ==
    /\ stage = "rewrite"
    /\ idx = 1
    /\ wk = 2
    /\ Cardinality(DOMAIN futs) = 2
    /\ doc # uf

\* C9: a rewritten node holds the translation when the translator returned
\* a result that is not None, empty or blank for it, and otherwise the
\* extracted string; it is never left empty or blank.
C9_PerStringFallback ==
    \A j \in 1..idx :
       /\ doc[ti[j].node] = IF GoodResult(j) THEN Translation(at[j]) ELSE at[j]
       /\ Strip(doc[ti[j].node]) # <<>>

\* C9 witness: every unit is rewritten, one from a good result, one from a
\* result that was None, empty or blank, and one whose result was missing.
C9_Witness ==
    /\ idx = total
    /\ \E j \in 1..total : GoodResult(j)
    /\ \E j \in 1..total : MissingResult(j)
    /\ \E j \in 1..total :
          ~ GoodResult(j) /\ ~ MissingResult(j) /\ ~ futs[BatchOf(j)].raised

====
